---- MODULE Spec2Model ----
(***************************************************************************)
(* A model of the SocketKit client SDK: the SocketKit connection object    *)
(* (src/src/index.js), the Rooms facade (src/unnamed/part_000) and the     *)
(* Clients facade (src/src/client/controller.js), over a LineClient        *)
(* transport that is external to the repository.                           *)
(*                                                                         *)
(* JavaScript values are written as their literals in strings:             *)
(*   "undefined" "null" "0" "1" "2" "''" "'T'" "true" "false" "{}" ...     *)
(* An options argument is given by its kind ("undefined", "null" or        *)
(* "object") and, when it is an object, the value of each of its keys (a   *)
(* key that is absent reads as "undefined", as it does in JavaScript).     *)
(***************************************************************************)
EXTENDS Naturals, Sequences, FiniteSets, TLC

VARIABLES client, isConnected, Rooms, Clients, tstate, skEmitted, sends, promises, calls, delivered, emitted, listeners

vars == <<client, isConnected, Rooms, Clients, tstate, skEmitted, sends, promises, calls, delivered, emitted, listeners>>

(***************************************************************************)
(* Bounds of the model.                                                    *)
(***************************************************************************)
\* transports one SocketKit instance creates (calls of connect() that get past the guard)
MaxTransports == 2
\* facade calls of one run of the dispatch and of the lifecycle specification
MaxCalls == 1
\* facade calls in flight at once in the concurrency specification
MaxInFlight == 2
\* inbound push events the transports deliver in one run
MaxEvents == 3
\* lifecycle events the transports report in one run
MaxReports == 2

(***************************************************************************)
(* JavaScript semantics the code relies on.                                *)
(***************************************************************************)
\* `!v`: the values the code's presence tests `if (!x)` take as missing
Falsy(v) == v \in {"undefined", "null", "0", "''", "false"}

\* a destructuring default `{x = d}`: it applies to undefined only
Default(v, d) == IF v = "undefined" THEN d ELSE v

\* the key `v` of an options argument, once the parameter default `= {}` has
\* replaced an omitted argument
Prop(o, v) == IF o = "object" THEN v ELSE "undefined"

(***************************************************************************)
(* What one facade call does: what it returns and what it passes to        *)
(* client.send.  ret is "transport" (the future client.send returned),     *)
(* "async" (the future of an async function awaiting it), "rejected"       *)
(* (Promise.reject(new Error(error))), "threw" (a synchronous exception)   *)
(* or "undefined" (the function returned nothing).                         *)
(***************************************************************************)
Reject(msg) == [ret |-> "rejected", error |-> msg, sent |-> <<>>]

\* destructuring undefined or null: a TypeError thrown before the body runs
Throw == [ret |-> "threw", error |-> "TypeError", sent |-> <<>>]

Send(event, payload) == [ret |-> "transport", error |-> "", sent |-> <<[event |-> event, argc |-> 2, payload |-> payload]>>]

ReturnUndefined == [ret |-> "undefined", error |-> "", sent |-> <<>>]

(***************************************************************************)
(* RoomsController.InternalEvents and RoomsController.Events               *)
(***************************************************************************)
RoomsInternalEvents == [ROOM_EVENT |-> "room_event", NEW_ROOM_CREATED |-> "new_room_created", JOINED_TO_ROOM |-> "joined_to_room", ROOM_UPDATED |-> "room_updated", GET_CLIENT_ROOMS |-> "get_client_rooms", GET_MESSAGES |-> "get_messages", SEND_MESSAGE_TO_ROOM |-> "send_message_to_room", CREATE_ROOM |-> "create_room", ADD_PARTICIPANT |-> "add_participant", UPDATE_PARTICIPANT |-> "update_participant", UPDATE_ROOM |-> "update_room"]

RoomsEvents == [NEW_ROOM_CREATED |-> "new_room_created", JOINED_TO_ROOM |-> "joined_to_room", ROOM_UPDATED |-> "room_updated", MESSAGE_RECEIVED |-> "message_received", CLIENT_UPDATED |-> "client_updated", ROOM_EVENT |-> "room_event", GET_ROOM_INFO |-> "get_room_info", SET_TYPING |-> "set_typing"]

\* ClientController.Events
ClientEvents == [ADD_CLIENT |-> "add_client", UPDATE_CLIENT |-> "update_client", DELETE_CLIENT |-> "delete_client", GET_CLIENT |-> "get_client", GET_CURRENT_CLIENT |-> "get_current_client"]

\* SocketKit.Event
SocketKitEvent == [CONNECTED |-> "connected", DISCONNECTED |-> "disconnected", ERROR |-> "error", CONNECTING_ERROR |-> "connecting_error"]

(***************************************************************************)
(* RoomsController                                                         *)
(***************************************************************************)
\* a faulty create: the flags and properties are passed on as given, without defaults
RoomsCreateNoDefaults(o, title, isPrivate, allowPostsByDefault, properties) ==
    IF o = "null" THEN Throw
    ELSE IF Falsy(Prop(o, title)) THEN Reject("title is required")
    ELSE Send(RoomsInternalEvents.CREATE_ROOM,
              [title |-> Prop(o, title),
               private |-> Prop(o, isPrivate),
               allowPostsByDefault |-> Prop(o, allowPostsByDefault),
               properties |-> Prop(o, properties)])

\* create({title, isPrivate = false, allowPostsByDefault = true, properties = {}} = {})
RoomsCreate(o, title, isPrivate, allowPostsByDefault, properties) ==
    IF o = "null" THEN Throw
    ELSE IF Falsy(Prop(o, title)) THEN Reject("title is required")
    ELSE Send(RoomsInternalEvents.CREATE_ROOM,
              [title |-> Prop(o, title),
               private |-> Default(Prop(o, isPrivate), "false"),
               allowPostsByDefault |-> Default(Prop(o, allowPostsByDefault), "true"),
               properties |-> Default(Prop(o, properties), "{}")])

\* sendMessageById(roomId, {text, properties = {} = {}}): the options parameter
\* has no default, so an omitted options argument cannot be destructured
RoomsSendMessageById(roomId, o, text, properties) ==
    IF o \in {"undefined", "null"} THEN Throw
    ELSE IF Falsy(roomId) THEN Reject("roomId is required")
    ELSE IF Falsy(Prop(o, text)) THEN Reject("text is required")
    ELSE Send(RoomsInternalEvents.SEND_MESSAGE_TO_ROOM,
              [roomId |-> roomId, text |-> Prop(o, text),
               properties |-> Default(Prop(o, properties), "{}")])

\* findById(roomId)
RoomsFindById(roomId) ==
    IF Falsy(roomId) THEN Reject("roomId is required")
    ELSE Send(RoomsEvents.GET_ROOM_INFO, [roomId |-> roomId])

\* a faulty findAll: the request is sent and its future is not returned
RoomsFindAllNoReturn(options) ==
    [ret |-> "undefined", error |-> "", sent |-> Send(RoomsInternalEvents.GET_CLIENT_ROOMS, [pagination |-> Default(options, "{}")]).sent]

\* findAll(options = {})
RoomsFindAll(options) ==
    Send(RoomsInternalEvents.GET_CLIENT_ROOMS, [pagination |-> Default(options, "{}")])

\* getMessagesById(roomId, options = {})
RoomsGetMessagesById(roomId, options) ==
    IF Falsy(roomId) THEN Reject("roomId is required")
    ELSE Send(RoomsInternalEvents.GET_MESSAGES,
              [roomId |-> roomId, pagination |-> Default(options, "{}")])

\* updateById(roomId, {title, properties = {}} = {})
RoomsUpdateById(roomId, o, title, properties) ==
    IF o = "null" THEN Throw
    ELSE IF Falsy(roomId) THEN Reject("roomId is required")
    ELSE IF Falsy(Prop(o, title)) THEN Reject("title is required")
    ELSE Send(RoomsInternalEvents.UPDATE_ROOM,
              [roomId |-> roomId, title |-> Prop(o, title),
               properties |-> Default(Prop(o, properties), "{}")])

\* deleteById() {}
RoomsDeleteById(roomId) == ReturnUndefined

\* addMemberById(roomId, {targetUniqueClientKey, isAllowedToPost, properties = {}} = {})
RoomsAddMemberById(roomId, o, targetUniqueClientKey, isAllowedToPost, properties) ==
    IF o = "null" THEN Throw
    ELSE IF Falsy(roomId) THEN Reject("roomId is required")
    ELSE IF Falsy(Prop(o, targetUniqueClientKey)) THEN Reject("targetUniqueClientKey is required")
    ELSE Send(RoomsInternalEvents.ADD_PARTICIPANT,
              [roomId |-> roomId,
               targetUniqueClientKey |-> Prop(o, targetUniqueClientKey),
               isAllowedToPost |-> Prop(o, isAllowedToPost),
               properties |-> Default(Prop(o, properties), "{}")])

\* updateMemberById(roomId, {targetUniqueClientKey, isAllowedToPost, properties} = {})
RoomsUpdateMemberById(roomId, o, targetUniqueClientKey, isAllowedToPost, properties) ==
    IF o = "null" THEN Throw
    ELSE IF Falsy(roomId) THEN Reject("roomId is required")
    ELSE IF Falsy(Prop(o, targetUniqueClientKey)) THEN Reject("targetUniqueClientKey is required")
    ELSE Send(RoomsInternalEvents.UPDATE_PARTICIPANT,
              [roomId |-> roomId,
               targetUniqueClientKey |-> Prop(o, targetUniqueClientKey),
               isAllowedToPost |-> Prop(o, isAllowedToPost),
               properties |-> Prop(o, properties)])

\* removeMemberById() {}
RoomsRemoveMemberById(roomId) == ReturnUndefined

(***************************************************************************)
(* ClientController                                                        *)
(***************************************************************************)
\* create({uniqueClientKey, token, properties} = {})
ClientsCreate(o, uniqueClientKey, token, properties) ==
    IF o = "null" THEN Throw
    ELSE IF Falsy(Prop(o, uniqueClientKey)) THEN Reject("uniqueClientKey is required")
    ELSE IF Falsy(Prop(o, token)) THEN Reject("token is required")
    ELSE IF Falsy(Prop(o, properties)) THEN Reject("properties is required")
    ELSE Send(ClientEvents.ADD_CLIENT,
              [uniqueClientKey |-> Prop(o, uniqueClientKey),
               token |-> Prop(o, token),
               properties |-> Prop(o, properties)])

\* a faulty upsert: the payload of create, without the upsert flag
ClientsUpsertNoFlag(uniqueClientKey, o, token, properties) ==
    IF o = "null" THEN Throw
    ELSE IF Falsy(uniqueClientKey) THEN Reject("uniqueClientKey is required")
    ELSE IF Falsy(Prop(o, token)) THEN Reject("token is required")
    ELSE IF Falsy(Prop(o, properties)) THEN Reject("properties is required")
    ELSE Send(ClientEvents.ADD_CLIENT,
              [uniqueClientKey |-> uniqueClientKey,
               token |-> Prop(o, token),
               properties |-> Prop(o, properties)])

\* upsert(uniqueClientKey, {token, properties} = {})
ClientsUpsert(uniqueClientKey, o, token, properties) ==
    IF o = "null" THEN Throw
    ELSE IF Falsy(uniqueClientKey) THEN Reject("uniqueClientKey is required")
    ELSE IF Falsy(Prop(o, token)) THEN Reject("token is required")
    ELSE IF Falsy(Prop(o, properties)) THEN Reject("properties is required")
    ELSE Send(ClientEvents.ADD_CLIENT,
              [uniqueClientKey |-> uniqueClientKey,
               token |-> Prop(o, token),
               properties |-> Prop(o, properties),
               upsert |-> "true"])

\* the object updateData of update(): uniqueClientKey, then token and
\* properties only when they are truthy
UpdateData(uniqueClientKey, token, properties) ==
    IF ~Falsy(token) /\ ~Falsy(properties)
      THEN [uniqueClientKey |-> uniqueClientKey, token |-> token, properties |-> properties]
    ELSE IF ~Falsy(token)
      THEN [uniqueClientKey |-> uniqueClientKey, token |-> token]
    ELSE IF ~Falsy(properties)
      THEN [uniqueClientKey |-> uniqueClientKey, properties |-> properties]
    ELSE [uniqueClientKey |-> uniqueClientKey]

\* update(uniqueClientKey, {token, properties} = {})
ClientsUpdate(uniqueClientKey, o, token, properties) ==
    IF o = "null" THEN Throw
    ELSE IF Falsy(uniqueClientKey) THEN Reject("uniqueClientKey is required")
    ELSE Send(ClientEvents.UPDATE_CLIENT,
              UpdateData(uniqueClientKey, Prop(o, token), Prop(o, properties)))

\* delete(uniqueClientKey)
ClientsDelete(uniqueClientKey) ==
    IF Falsy(uniqueClientKey) THEN Reject("uniqueClientKey is required")
    ELSE Send(ClientEvents.DELETE_CLIENT, [uniqueClientKey |-> uniqueClientKey])

\* findByKey(uniqueClientKey)
ClientsFindByKey(uniqueClientKey) ==
    IF Falsy(uniqueClientKey) THEN Reject("uniqueClientKey is required")
    ELSE Send(ClientEvents.GET_CLIENT, [uniqueClientKey |-> uniqueClientKey])

\* async getCurrent(): client.send(event) with no payload argument; the
\* async function returns a future of its own that follows the transport's
ClientsGetCurrent ==
    [ret |-> "async", error |-> "", sent |-> <<[event |-> ClientEvents.GET_CURRENT_CLIENT, argc |-> 1, payload |-> <<>>]>>]

(***************************************************************************)
(* State.                                                                  *)
(*   client       SocketKit.client: 0 is null, t > 0 the t-th LineClient   *)
(*   isConnected  SocketKit.isConnected                                    *)
(*   Rooms, Clients  the facades of SocketKit, by the transport they were  *)
(*                constructed with (0: not yet assigned)                   *)
(*   tstate       the state of each LineClient created so far              *)
(*   skEmitted    what SocketKit has emitted to its own listeners          *)
(*   sends        the calls of client.send, in order, each with the        *)
(*                transport it went to and the future it returned          *)
(*   promises     every future created so far                              *)
(*   calls        the facade calls made so far and what each returned      *)
(*   delivered    the inbound events the transports have emitted           *)
(*   emitted      what the Rooms facades have emitted to their listeners   *)
(*   listeners    the <<facade, event>> pairs a listener is registered for *)
(***************************************************************************)
Init ==
    /\ client = 0
    /\ isConnected = FALSE
    /\ Rooms = 0
    /\ Clients = 0
    /\ tstate = <<>>
    /\ skEmitted = <<>>
    /\ sends = <<>>
    /\ promises = <<>>
    /\ calls = <<>>
    /\ delivered = <<>>
    /\ emitted = <<>>
    /\ listeners = {}

Transports == 1..Len(tstate)

Pending(follows) == [state |-> "pending", value |-> "", follows |-> follows, settles |-> 0]

\* the future a facade call returns, given the futures that exist before it
ReturnedPromise(out, nP) ==
    CASE out.ret = "rejected" -> nP + 1
      [] out.ret = "transport" /\ out.sent # <<>> -> nP + Len(out.sent)
      [] out.ret = "async" -> nP + Len(out.sent) + 1
      [] OTHER -> 0

(***************************************************************************)
(* A call of a method of the facade constructed with transport `facade`:   *)
(* every client.send it makes goes to that transport, which returns a new  *)
(* pending future for each.                                                *)
(***************************************************************************)
Invoke(facade, method, args, out) ==
    /\ facade # 0
    /\ LET nP == Len(promises)
           nS == Len(sends)
           made == [i \in 1..Len(out.sent) |->
                      [to |-> facade, event |-> out.sent[i].event, argc |-> out.sent[i].argc,
                       payload |-> out.sent[i].payload, promise |-> nP + i]]
           base == promises \o [i \in 1..Len(out.sent) |-> Pending(0)]
       IN  /\ sends' = sends \o made
           /\ promises' =
                CASE out.ret = "rejected" ->
                       Append(base, [state |-> "rejected", value |-> out.error, follows |-> 0, settles |-> 1])
                  [] out.ret = "async" -> Append(base, Pending(nP + Len(out.sent)))
                  [] OTHER -> base
           /\ calls' = Append(calls, [facade |-> facade, method |-> method, args |-> args,
                                      ret |-> out.ret, error |-> out.error,
                                      promise |-> ReturnedPromise(out, nP),
                                      sendsBefore |-> nS, sendsAfter |-> nS + Len(out.sent)])
    /\ UNCHANGED <<client, isConnected, Rooms, Clients, tstate, skEmitted, delivered, emitted, listeners>>

CallRoomsCreate(o, title, isPrivate, allowPostsByDefault, properties) ==
    Invoke(Rooms, "Rooms.create",
           [o |-> o, title |-> title, isPrivate |-> isPrivate, allowPostsByDefault |-> allowPostsByDefault, properties |-> properties],
           RoomsCreate(o, title, isPrivate, allowPostsByDefault, properties))

CallRoomsSendMessageById(roomId, o, text, properties) ==
    Invoke(Rooms, "Rooms.sendMessageById",
           [roomId |-> roomId, o |-> o, text |-> text, properties |-> properties],
           RoomsSendMessageById(roomId, o, text, properties))

CallRoomsFindById(roomId) ==
    Invoke(Rooms, "Rooms.findById", [roomId |-> roomId], RoomsFindById(roomId))

CallRoomsFindAll(options) ==
    Invoke(Rooms, "Rooms.findAll", [options |-> options], RoomsFindAll(options))

CallRoomsGetMessagesById(roomId, options) ==
    Invoke(Rooms, "Rooms.getMessagesById", [roomId |-> roomId, options |-> options],
           RoomsGetMessagesById(roomId, options))

CallRoomsUpdateById(roomId, o, title, properties) ==
    Invoke(Rooms, "Rooms.updateById",
           [roomId |-> roomId, o |-> o, title |-> title, properties |-> properties],
           RoomsUpdateById(roomId, o, title, properties))

CallRoomsDeleteById(roomId) ==
    Invoke(Rooms, "Rooms.deleteById", [roomId |-> roomId], RoomsDeleteById(roomId))

CallRoomsAddMemberById(roomId, o, targetUniqueClientKey, isAllowedToPost, properties) ==
    Invoke(Rooms, "Rooms.addMemberById",
           [roomId |-> roomId, o |-> o, targetUniqueClientKey |-> targetUniqueClientKey, isAllowedToPost |-> isAllowedToPost, properties |-> properties],
           RoomsAddMemberById(roomId, o, targetUniqueClientKey, isAllowedToPost, properties))

CallRoomsUpdateMemberById(roomId, o, targetUniqueClientKey, isAllowedToPost, properties) ==
    Invoke(Rooms, "Rooms.updateMemberById",
           [roomId |-> roomId, o |-> o, targetUniqueClientKey |-> targetUniqueClientKey, isAllowedToPost |-> isAllowedToPost, properties |-> properties],
           RoomsUpdateMemberById(roomId, o, targetUniqueClientKey, isAllowedToPost, properties))

CallRoomsRemoveMemberById(roomId) ==
    Invoke(Rooms, "Rooms.removeMemberById", [roomId |-> roomId], RoomsRemoveMemberById(roomId))

CallClientsCreate(o, uniqueClientKey, token, properties) ==
    Invoke(Clients, "Clients.create",
           [o |-> o, uniqueClientKey |-> uniqueClientKey, token |-> token, properties |-> properties],
           ClientsCreate(o, uniqueClientKey, token, properties))

CallClientsUpsert(uniqueClientKey, o, token, properties) ==
    Invoke(Clients, "Clients.upsert",
           [uniqueClientKey |-> uniqueClientKey, o |-> o, token |-> token, properties |-> properties],
           ClientsUpsert(uniqueClientKey, o, token, properties))

CallClientsUpdate(uniqueClientKey, o, token, properties) ==
    Invoke(Clients, "Clients.update",
           [uniqueClientKey |-> uniqueClientKey, o |-> o, token |-> token, properties |-> properties],
           ClientsUpdate(uniqueClientKey, o, token, properties))

CallClientsDelete(uniqueClientKey) ==
    Invoke(Clients, "Clients.delete", [uniqueClientKey |-> uniqueClientKey], ClientsDelete(uniqueClientKey))

CallClientsFindByKey(uniqueClientKey) ==
    Invoke(Clients, "Clients.findByKey", [uniqueClientKey |-> uniqueClientKey], ClientsFindByKey(uniqueClientKey))

CallClientsGetCurrent ==
    Invoke(Clients, "Clients.getCurrent", [none |-> "undefined"], ClientsGetCurrent)

(***************************************************************************)
(* SocketKit                                                               *)
(***************************************************************************)
\* connect(): a warning and nothing else when isConnected; otherwise a new
\* LineClient, the four lifecycle handlers bound to it, client.connect(),
\* and new facades over it
Connect ==
    /\ isConnected \/ Len(tstate) < MaxTransports
    /\ IF isConnected
         THEN UNCHANGED <<client, Rooms, Clients, tstate>>
         ELSE /\ client' = Len(tstate) + 1
              /\ tstate' = Append(tstate, "connecting")
              /\ Rooms' = Len(tstate) + 1
              /\ Clients' = Len(tstate) + 1
    /\ UNCHANGED <<isConnected, skEmitted, sends, promises, calls, delivered, emitted, listeners>>

\* what client.disconnect() does to a LineClient: it starts closing, and
\* reports DISCONNECTED later
Closing(s) == IF s \in {"connecting", "connected"} THEN "disconnecting" ELSE s

\* a faulty disconnect(): it also clears the flag itself
DisconnectClearsFlag ==
    /\ IF isConnected
         THEN tstate' = [tstate EXCEPT ![client] = Closing(@)]
         ELSE UNCHANGED tstate
    /\ isConnected' = FALSE
    /\ UNCHANGED <<client, Rooms, Clients, skEmitted, sends, promises, calls, delivered, emitted, listeners>>

\* disconnect(): client.disconnect() when isConnected, nothing otherwise
Disconnect ==
    /\ IF isConnected
         THEN tstate' = [tstate EXCEPT ![client] = Closing(@)]
         ELSE UNCHANGED tstate
    /\ UNCHANGED <<client, isConnected, Rooms, Clients, skEmitted, sends, promises, calls, delivered, emitted, listeners>>

\* getClient()
GetClient ==
    UNCHANGED <<client, isConnected, Rooms, Clients, tstate, skEmitted, sends, promises, calls, delivered, emitted, listeners>>

SkEmit(name, code, reason, error) == Append(skEmitted, [name |-> name, code |-> code, reason |-> reason, error |-> error])

\* the handler bindEvents() binds to LineClient.Event.CONNECTED of transport t
OnConnected(t) ==
    /\ t \in Transports
    /\ tstate[t] = "connecting"
    /\ tstate' = [tstate EXCEPT ![t] = "connected"]
    /\ isConnected' = TRUE
    /\ skEmitted' = SkEmit(SocketKitEvent.CONNECTED, "undefined", "undefined", "undefined")
    /\ UNCHANGED <<client, Rooms, Clients, sends, promises, calls, delivered, emitted, listeners>>

\* the handler bound to LineClient.Event.DISCONNECTED of transport t
OnDisconnected(t, code, reason) ==
    /\ t \in Transports
    /\ tstate[t] \in {"connecting", "connected", "disconnecting"}
    /\ tstate' = [tstate EXCEPT ![t] = "disconnected"]
    /\ isConnected' = FALSE
    /\ skEmitted' = SkEmit(SocketKitEvent.DISCONNECTED, code, reason, "undefined")
    /\ UNCHANGED <<client, Rooms, Clients, sends, promises, calls, delivered, emitted, listeners>>

\* the handler bound to LineClient.Event.ERROR of transport t
OnError(t, error) ==
    /\ t \in Transports
    /\ tstate[t] \in {"connecting", "connected", "disconnecting"}
    /\ skEmitted' = SkEmit(SocketKitEvent.ERROR, "undefined", "undefined", error)
    /\ UNCHANGED <<client, isConnected, Rooms, Clients, tstate, sends, promises, calls, delivered, emitted, listeners>>

\* the handler bound to LineClient.Event.CONNECTING_ERROR of transport t
OnConnectingError(t, error) ==
    /\ t \in Transports
    /\ tstate[t] = "connecting"
    /\ skEmitted' = SkEmit(SocketKitEvent.CONNECTING_ERROR, "undefined", "undefined", error)
    /\ UNCHANGED <<client, isConnected, Rooms, Clients, tstate, sends, promises, calls, delivered, emitted, listeners>>

(***************************************************************************)
(* RoomsController.bindEvents: the four handlers the constructor binds to  *)
(* the transport.  Each is given the message the transport delivers and    *)
(* yields what the facade emits.                                           *)
(***************************************************************************)
HandleRoomEvent(message) == [name |-> RoomsEvents.ROOM_EVENT, payload |-> message.payload]

HandleNewRoomCreated(message) == [name |-> RoomsEvents.NEW_ROOM_CREATED, payload |-> message.payload]

HandleJoinedToRoom(message) == [name |-> RoomsEvents.JOINED_TO_ROOM, payload |-> message.payload]

\* a faulty room_updated handler: it emits under the name of room_event
HandleRoomUpdatedAsRoomEvent(message) == [name |-> RoomsEvents.ROOM_EVENT, payload |-> message.payload]

HandleRoomUpdated(message) == [name |-> RoomsEvents.ROOM_UPDATED, payload |-> message.payload]

\* this.emit(name, payload) of the facade over transport t: every listener
\* registered for the name hears it, and with none nothing happens
RoomsEmit(t, e) == Append(emitted, [facade |-> t, name |-> e.name, payload |-> e.payload, heard |-> <<t, e.name>> \in listeners])

\* transport t emits the inbound event `name` with `message`
Arrive(t, name, message) == Append(delivered, [to |-> t, name |-> name, message |-> message])

OnRoomEvent(t, message) ==
    /\ t \in Transports
    /\ delivered' = Arrive(t, RoomsInternalEvents.ROOM_EVENT, message)
    /\ emitted' = RoomsEmit(t, HandleRoomEvent(message))
    /\ UNCHANGED <<client, isConnected, Rooms, Clients, tstate, skEmitted, sends, promises, calls, listeners>>

OnNewRoomCreated(t, message) ==
    /\ t \in Transports
    /\ delivered' = Arrive(t, RoomsInternalEvents.NEW_ROOM_CREATED, message)
    /\ emitted' = RoomsEmit(t, HandleNewRoomCreated(message))
    /\ UNCHANGED <<client, isConnected, Rooms, Clients, tstate, skEmitted, sends, promises, calls, listeners>>

OnJoinedToRoom(t, message) ==
    /\ t \in Transports
    /\ delivered' = Arrive(t, RoomsInternalEvents.JOINED_TO_ROOM, message)
    /\ emitted' = RoomsEmit(t, HandleJoinedToRoom(message))
    /\ UNCHANGED <<client, isConnected, Rooms, Clients, tstate, skEmitted, sends, promises, calls, listeners>>

OnRoomUpdated(t, message) ==
    /\ t \in Transports
    /\ delivered' = Arrive(t, RoomsInternalEvents.ROOM_UPDATED, message)
    /\ emitted' = RoomsEmit(t, HandleRoomUpdated(message))
    /\ UNCHANGED <<client, isConnected, Rooms, Clients, tstate, skEmitted, sends, promises, calls, listeners>>

\* the inbound events bindEvents() binds a handler to
RoomsBound == {RoomsInternalEvents.ROOM_EVENT, RoomsInternalEvents.NEW_ROOM_CREATED, RoomsInternalEvents.JOINED_TO_ROOM, RoomsInternalEvents.ROOM_UPDATED}

\* an inbound event no handler is bound to: the facade does nothing
OnOtherEvent(t, name, message) ==
    /\ t \in Transports
    /\ name \notin RoomsBound
    /\ delivered' = Arrive(t, name, message)
    /\ UNCHANGED <<client, isConnected, Rooms, Clients, tstate, skEmitted, sends, promises, calls, emitted, listeners>>

\* Rooms.on(name, listener), inherited from EventEmitterExtra
On(name) ==
    /\ Rooms # 0
    /\ listeners' = listeners \cup {<<Rooms, name>>}
    /\ UNCHANGED <<client, isConnected, Rooms, Clients, tstate, skEmitted, sends, promises, calls, delivered, emitted>>

(***************************************************************************)
(* The futures.  The transport settles the future of a send once, with a   *)
(* reply or an error; the future of an async function settles, in a later  *)
(* microtask, as the future it awaits did.                                 *)
(***************************************************************************)
TransportSettle(p, state, value) ==
    /\ p \in 1..Len(promises)
    /\ promises[p].state = "pending"
    /\ promises[p].follows = 0
    /\ promises' = [promises EXCEPT ![p] = [state |-> state, value |-> value, follows |-> 0, settles |-> @.settles + 1]]
    /\ UNCHANGED <<client, isConnected, Rooms, Clients, tstate, skEmitted, sends, calls, delivered, emitted, listeners>>

AsyncSettle(q) ==
    /\ q \in 1..Len(promises)
    /\ promises[q].state = "pending"
    /\ promises[q].follows # 0
    /\ promises[promises[q].follows].state # "pending"
    /\ promises' = [promises EXCEPT ![q] = [state |-> promises[@.follows].state, value |-> promises[@.follows].value, follows |-> @.follows, settles |-> @.settles + 1]]
    /\ UNCHANGED <<client, isConnected, Rooms, Clients, tstate, skEmitted, sends, calls, delivered, emitted, listeners>>

(***************************************************************************)
(* The arguments the specifications call the facades with.                 *)
(***************************************************************************)
OptKinds == {"undefined", "null", "object"}
\* the keys of an options argument of kind o range over S; there are none to
\* give when the argument is omitted or null
Keys(o, S) == IF o = "object" THEN S ELSE {"undefined"}
RoomIds == {"undefined", "0", "1"}
Titles == {"undefined", "''", "'T'"}
ClientKeys == {"undefined", "''", "'k'"}
Tokens == {"undefined", "''", "'t'"}
Flags == {"undefined", "false", "true"}
Maps == {"undefined", "{}", "{a:1}"}
Pages == {"undefined", "null", "{limit:1}"}
Payloads == {"{id:5}", "{id:6}"}
Messages == [payload : Payloads, id : {"m"}]
Outcomes == {<<"fulfilled", "reply">>, <<"rejected", "neterr">>}

(***************************************************************************)
(* Dispatch: one connect(), then facade calls with every combination of    *)
(* present, empty and omitted arguments.                                   *)
(***************************************************************************)
MayCall == Len(calls) < MaxCalls

DispatchNext ==
    \/ client = 0 /\ Connect
    \/ MayCall /\ \E o \in OptKinds : \E t \in Keys(o, Titles), p \in Keys(o, Flags), a \in Keys(o, Flags), m \in Keys(o, Maps) :
          CallRoomsCreate(o, t, p, a, m)
    \/ MayCall /\ \E r \in RoomIds, o \in OptKinds : \E t \in Keys(o, Titles), m \in Keys(o, Maps) :
          CallRoomsSendMessageById(r, o, t, m)
    \/ MayCall /\ \E r \in RoomIds : CallRoomsFindById(r)
    \/ MayCall /\ \E g \in Pages : CallRoomsFindAll(g)
    \/ MayCall /\ \E r \in RoomIds, g \in Pages : CallRoomsGetMessagesById(r, g)
    \/ MayCall /\ \E r \in RoomIds, o \in OptKinds : \E t \in Keys(o, Titles), m \in Keys(o, Maps) :
          CallRoomsUpdateById(r, o, t, m)
    \/ MayCall /\ \E r \in RoomIds : CallRoomsDeleteById(r)
    \/ MayCall /\ \E r \in RoomIds, o \in OptKinds : \E k \in Keys(o, ClientKeys), a \in Keys(o, Flags), m \in Keys(o, Maps) :
          CallRoomsAddMemberById(r, o, k, a, m)
    \/ MayCall /\ \E r \in RoomIds, o \in OptKinds : \E k \in Keys(o, ClientKeys), a \in Keys(o, Flags), m \in Keys(o, Maps) :
          CallRoomsUpdateMemberById(r, o, k, a, m)
    \/ MayCall /\ \E r \in RoomIds : CallRoomsRemoveMemberById(r)
    \/ MayCall /\ \E o \in OptKinds : \E k \in Keys(o, ClientKeys), t \in Keys(o, Tokens), m \in Keys(o, Maps) :
          CallClientsCreate(o, k, t, m)
    \/ MayCall /\ \E k \in ClientKeys, o \in OptKinds : \E t \in Keys(o, Tokens), m \in Keys(o, Maps) :
          CallClientsUpsert(k, o, t, m)
    \/ MayCall /\ \E k \in ClientKeys, o \in OptKinds : \E t \in Keys(o, Tokens), m \in Keys(o, Maps) :
          CallClientsUpdate(k, o, t, m)
    \/ MayCall /\ \E k \in ClientKeys : CallClientsDelete(k)
    \/ MayCall /\ \E k \in ClientKeys : CallClientsFindByKey(k)
    \/ MayCall /\ CallClientsGetCurrent

SpecDispatch == Init /\ [][DispatchNext]_vars

(***************************************************************************)
(* Router: one connect(), listeners registered at any moment, and inbound  *)
(* events of every kind.                                                   *)
(***************************************************************************)
MayDeliver == Len(delivered) < MaxEvents

RouterNext ==
    \/ client = 0 /\ Connect
    \/ \E n \in {RoomsEvents.ROOM_EVENT, RoomsEvents.NEW_ROOM_CREATED} : On(n)
    \/ MayDeliver /\ \E t \in Transports, m \in Messages : OnRoomEvent(t, m)
    \/ MayDeliver /\ \E t \in Transports, m \in Messages : OnNewRoomCreated(t, m)
    \/ MayDeliver /\ \E t \in Transports, m \in Messages : OnJoinedToRoom(t, m)
    \/ MayDeliver /\ \E t \in Transports, m \in Messages : OnRoomUpdated(t, m)
    \/ MayDeliver /\ \E t \in Transports, m \in Messages : OnOtherEvent(t, "message_received", m)

SpecRouter == Init /\ [][RouterNext]_vars

(***************************************************************************)
(* Concurrency: several calls in flight, settled by the transport in any   *)
(* order, with push events arriving in between.                            *)
(***************************************************************************)
MayFly == Len(calls) < MaxInFlight

ConcNext ==
    \/ client = 0 /\ Connect
    \/ MayFly /\ \E r \in {"undefined", "1", "2"} : CallRoomsFindById(r)
    \/ MayFly /\ CallRoomsFindAll("undefined")
    \/ MayFly /\ CallClientsGetCurrent
    \/ \E p \in 1..Len(promises), o \in Outcomes : TransportSettle(p, o[1], o[2])
    \/ \E q \in 1..Len(promises) : AsyncSettle(q)
    \/ MayDeliver /\ \E t \in Transports : OnRoomEvent(t, [payload |-> "{id:5}", id |-> "m"])

SpecConc == Init /\ [][ConcNext]_vars

(***************************************************************************)
(* Lifecycle: connect(), disconnect() and getClient() at any moment, the   *)
(* lifecycle events of every transport created, and facade calls.          *)
(***************************************************************************)
MayReport == Len(skEmitted) < MaxReports

LifeNext ==
    \/ Connect
    \/ Disconnect
    \/ GetClient
    \/ MayReport /\ \E t \in Transports : OnConnected(t)
    \/ MayReport /\ \E t \in Transports : OnDisconnected(t, "1000", "'bye'")
    \/ MayReport /\ \E t \in Transports : OnError(t, "'boom'")
    \/ MayReport /\ \E t \in Transports : OnConnectingError(t, "'refused'")
    \/ MayCall /\ CallRoomsCreate("object", "'T'", "undefined", "undefined", "undefined")
    \/ MayCall /\ CallRoomsSendMessageById("1", "object", "'T'", "undefined")
    \/ MayCall /\ CallRoomsFindById("1")
    \/ MayCall /\ CallRoomsFindAll("undefined")
    \/ MayCall /\ CallRoomsGetMessagesById("1", "undefined")
    \/ MayCall /\ CallRoomsUpdateById("1", "object", "'T'", "undefined")
    \/ MayCall /\ CallRoomsDeleteById("1")
    \/ MayCall /\ CallRoomsAddMemberById("1", "object", "'k'", "undefined", "undefined")
    \/ MayCall /\ CallRoomsUpdateMemberById("1", "object", "'k'", "undefined", "undefined")
    \/ MayCall /\ CallRoomsRemoveMemberById("1")
    \/ MayCall /\ CallClientsCreate("object", "'k'", "'t'", "{}")
    \/ MayCall /\ CallClientsUpsert("'k'", "object", "'t'", "{}")
    \/ MayCall /\ CallClientsUpdate("'k'", "object", "'t'", "{}")
    \/ MayCall /\ CallClientsDelete("'k'")
    \/ MayCall /\ CallClientsFindByKey("undefined")
    \/ MayCall /\ CallClientsGetCurrent

SpecLife == Init /\ [][LifeNext]_vars

(***************************************************************************)
(* Vocabulary of the claims.                                               *)
(***************************************************************************)
\* the required fields of each facade method, in declaration order
Required(method) ==
    CASE method = "Rooms.create" -> <<"title">>
      [] method = "Rooms.sendMessageById" -> <<"roomId", "text">>
      [] method = "Rooms.findById" -> <<"roomId">>
      [] method = "Rooms.getMessagesById" -> <<"roomId">>
      [] method = "Rooms.updateById" -> <<"roomId", "title">>
      [] method = "Rooms.addMemberById" -> <<"roomId", "targetUniqueClientKey">>
      [] method = "Rooms.updateMemberById" -> <<"roomId", "targetUniqueClientKey">>
      [] method = "Clients.create" -> <<"uniqueClientKey", "token", "properties">>
      [] method = "Clients.upsert" -> <<"uniqueClientKey", "token", "properties">>
      [] method = "Clients.update" -> <<"uniqueClientKey">>
      [] method = "Clients.delete" -> <<"uniqueClientKey">>
      [] method = "Clients.findByKey" -> <<"uniqueClientKey">>
      [] OTHER -> <<>>

\* the methods that are implemented, all of which send a request
Implemented == {"Rooms.create", "Rooms.sendMessageById", "Rooms.findById", "Rooms.findAll", "Rooms.getMessagesById", "Rooms.updateById", "Rooms.addMemberById", "Rooms.updateMemberById", "Clients.create", "Clients.upsert", "Clients.update", "Clients.delete", "Clients.findByKey", "Clients.getCurrent"}

\* the call's field f: a positional argument, or a key of the options argument
Arg(c, f) == c.args[f]

RequiredMessage(f) ==
    CASE f = "title" -> "title is required"
      [] f = "roomId" -> "roomId is required"
      [] f = "text" -> "text is required"
      [] f = "targetUniqueClientKey" -> "targetUniqueClientKey is required"
      [] f = "uniqueClientKey" -> "uniqueClientKey is required"
      [] f = "token" -> "token is required"
      [] f = "properties" -> "properties is required"
      [] OTHER -> "?"

\* the options argument was not given as null (null is a value, not an omission)
NotNullOptions(c) == "o" \in DOMAIN c.args => c.args.o # "null"

\* the required fields the call omits, by their places in declaration order
OmittedAt(c) == {k \in 1..Len(Required(c.method)) : Arg(c, Required(c.method)[k]) = "undefined"}

\* missing in the spec's sense: null, or an empty string, or not given
Missing(v) == v \in {"undefined", "null", "''"}

MissingAt(c) == {k \in 1..Len(Required(c.method)) : Missing(Arg(c, Required(c.method)[k]))}

\* every required field is there, and nothing the presence tests refuse
AllPresent(c) ==
    /\ "o" \in DOMAIN c.args => c.args.o = "object"
    /\ \A k \in 1..Len(Required(c.method)) : ~Falsy(Arg(c, Required(c.method)[k]))

Min(S) == CHOOSE k \in S : \A j \in S : k <= j

\* the call made exactly one client.send
SentOne(c) == c.sendsAfter = c.sendsBefore + 1

TheSend(c) == sends[c.sendsAfter]

\* a future that is rejected with a "<field> is required" error of the method
RejectedRequired(c) ==
    /\ c.ret = "rejected"
    /\ c.promise \in 1..Len(promises)
    /\ promises[c.promise].state = "rejected"
    /\ promises[c.promise].value = c.error
    /\ \E k \in 1..Len(Required(c.method)) : c.error = RequiredMessage(Required(c.method)[k])

\* the documented internal (wire-facing) identifiers
RoomsInternalNames == {RoomsInternalEvents[k] : k \in DOMAIN RoomsInternalEvents}

ClientsInternalNames == {ClientEvents[k] : k \in DOMAIN ClientEvents}

IsRoomsCall(c) == c.method \in {"Rooms.create", "Rooms.sendMessageById", "Rooms.findById", "Rooms.findAll", "Rooms.getMessagesById", "Rooms.updateById", "Rooms.deleteById", "Rooms.addMemberById", "Rooms.updateMemberById", "Rooms.removeMemberById"}

Calls == {calls[i] : i \in 1..Len(calls)}

(***************************************************************************)
(* C1.  A call that omits a required field (the identifier, a required     *)
(* key of the options, or the options as a whole) returns a future         *)
(* rejected with a 'required' error and makes no client.send; it does not  *)
(* throw and does not return a non-future.                                 *)
(* Refuted by Rooms.sendMessageById(1): its options parameter has no       *)
(* default, so the call throws a TypeError.                                *)
(***************************************************************************)
C1_OmittedRequiredIsRejected ==
    \A c \in Calls :
        (NotNullOptions(c) /\ OmittedAt(c) # {}) =>
            /\ RejectedRequired(c)
            /\ c.sendsAfter = c.sendsBefore

(***************************************************************************)
(* C2.  A call with every required field present makes exactly one         *)
(* client.send, under a documented internal identifier of its facade.      *)
(* Refuted by Rooms.findById(1), which sends under get_room_info, a name   *)
(* of RoomsController.Events only.                                         *)
(***************************************************************************)
C2_OneSendUnderInternalName ==
    \A c \in Calls :
        (c.method \in Implemented /\ AllPresent(c)) =>
            /\ SentOne(c)
            /\ TheSend(c).event \in (IF IsRoomsCall(c) THEN RoomsInternalNames ELSE ClientsInternalNames)

(***************************************************************************)
(* C4.  Rooms.deleteById and Rooms.removeMemberById fail on every call,    *)
(* by throwing or by a rejected future; they never return as if they had   *)
(* succeeded.  Refuted: both have an empty body and return undefined.      *)
(***************************************************************************)
C4_UnimplementedFailLoudly ==
    \A c \in Calls :
        c.method \in {"Rooms.deleteById", "Rooms.removeMemberById"} => c.ret \in {"threw", "rejected"}

(***************************************************************************)
(* C8.  A call that is missing more than one required field is rejected    *)
(* with '<field> is required' for the first of them in declaration order.  *)
(* Refuted by Rooms.sendMessageById() with no argument at all: roomId and  *)
(* text are both missing and the call throws a TypeError (see C1).         *)
(***************************************************************************)
C8_FirstMissingFieldIsNamed ==
    \A c \in Calls :
        (NotNullOptions(c) /\ Cardinality(MissingAt(c)) > 1) =>
            /\ c.ret = "rejected"
            /\ c.error = RequiredMessage(Required(c.method)[Min(MissingAt(c))])

(***************************************************************************)
(* C5.  As claimed: a validated call that omits an optional field sends    *)
(* the field with its documented default; Rooms.create sends private=false *)
(* and allowPostsByDefault=true, and Rooms create, sendMessageById,        *)
(* updateById, addMemberById, updateMemberById and Clients.update send     *)
(* properties as an empty map.                                             *)
(* Refuted by Rooms.updateMemberById(1, {targetUniqueClientKey:'k'}),      *)
(* which sends properties: undefined, and by Clients.update('k', {}),      *)
(* whose payload has no properties key.                                    *)
(***************************************************************************)
OmitsProperties(c) == "properties" \in DOMAIN c.args /\ c.args.properties = "undefined"

SendsEmptyProperties(c) ==
    /\ SentOne(c)
    /\ "properties" \in DOMAIN TheSend(c).payload
    /\ TheSend(c).payload.properties = "{}"

CreateDefaults(c) ==
    c.method = "Rooms.create" =>
        /\ SentOne(c)
        /\ c.args.isPrivate = "undefined" => TheSend(c).payload.private = "false"
        /\ c.args.allowPostsByDefault = "undefined" => TheSend(c).payload.allowPostsByDefault = "true"
        /\ (c.args.isPrivate = "undefined" /\ c.args.allowPostsByDefault = "undefined" /\ c.args.properties = "undefined") =>
              TheSend(c).payload = [title |-> c.args.title, private |-> "false", allowPostsByDefault |-> "true", properties |-> "{}"]

C5_OmittedOptionalsTakeDefaults ==
    \A c \in Calls :
        AllPresent(c) =>
            /\ CreateDefaults(c)
            /\ (c.method \in {"Rooms.create", "Rooms.sendMessageById", "Rooms.updateById", "Rooms.addMemberById", "Rooms.updateMemberById", "Clients.update"} /\ OmitsProperties(c)) =>
                  SendsEmptyProperties(c)

(***************************************************************************)
(* C5, amended.  Rooms.create sends private=false and                      *)
(* allowPostsByDefault=true for the flags it is not given, and create,     *)
(* sendMessageById, updateById and addMemberById send properties as an     *)
(* empty map when it is omitted; updateMemberById sends properties as      *)
(* undefined, and Clients.update sends a payload without a properties key. *)
(***************************************************************************)
C5_DefaultsWhereDeclared ==
    \A c \in Calls :
        AllPresent(c) =>
            /\ CreateDefaults(c)
            /\ (c.method \in {"Rooms.create", "Rooms.sendMessageById", "Rooms.updateById", "Rooms.addMemberById"} /\ OmitsProperties(c)) =>
                  SendsEmptyProperties(c)
            /\ (c.method = "Rooms.updateMemberById" /\ OmitsProperties(c)) =>
                  /\ SentOne(c)
                  /\ "properties" \in DOMAIN TheSend(c).payload
                  /\ TheSend(c).payload.properties = "undefined"
            /\ (c.method = "Clients.update" /\ OmitsProperties(c)) =>
                  /\ SentOne(c)
                  /\ "properties" \notin DOMAIN TheSend(c).payload

\* create({title:'T'}) has been called and has sent its request
C5_Witness ==
    \E c \in Calls :
        /\ c.method = "Rooms.create"
        /\ c.args = [o |-> "object", title |-> "'T'", isPrivate |-> "undefined", allowPostsByDefault |-> "undefined", properties |-> "undefined"]
        /\ SentOne(c)
        /\ TheSend(c).event = "create_room"

(***************************************************************************)
(* C6.  A validated Clients.upsert(key, {token, properties}) sends         *)
(* add_client with exactly {uniqueClientKey: key, token, properties,       *)
(* upsert: true}; a validated Clients.create sends add_client with a       *)
(* payload that has no upsert key.                                         *)
(***************************************************************************)
C6_UpsertFlagDistinguishes ==
    \A c \in Calls :
        AllPresent(c) =>
            /\ c.method = "Clients.upsert" =>
                  /\ SentOne(c)
                  /\ TheSend(c).event = "add_client"
                  /\ TheSend(c).payload = [uniqueClientKey |-> c.args.uniqueClientKey, token |-> c.args.token, properties |-> c.args.properties, upsert |-> "true"]
            /\ c.method = "Clients.create" =>
                  /\ SentOne(c)
                  /\ TheSend(c).event = "add_client"
                  /\ "upsert" \notin DOMAIN TheSend(c).payload
                  /\ TheSend(c).payload = [uniqueClientKey |-> c.args.uniqueClientKey, token |-> c.args.token, properties |-> c.args.properties]

\* upsert('k', {token:'t', properties:{}}) has been called and has sent its request
C6_Witness ==
    \E c \in Calls :
        /\ c.method = "Clients.upsert"
        /\ c.args = [uniqueClientKey |-> "'k'", o |-> "object", token |-> "'t'", properties |-> "{}"]
        /\ SentOne(c)

(***************************************************************************)
(* C3.  What a Rooms facade emits is exactly the routed inbound events     *)
(* (room_event, new_room_created, joined_to_room, room_updated) of its     *)
(* transport, in delivery order, each under the public name of the static  *)
(* table and with message.payload: one emission per routed event, none     *)
(* dropped, duplicated, reordered or held back; an emission is heard only  *)
(* by a registered listener and without one it has no effect.              *)
(***************************************************************************)
RoutedTable == [room_event |-> "room_event", new_room_created |-> "new_room_created", joined_to_room |-> "joined_to_room", room_updated |-> "room_updated"]

RECURSIVE ExpectedEmissions(_)
ExpectedEmissions(ds) ==
    IF ds = <<>> THEN <<>>
    ELSE LET d == ds[Len(ds)]
             before == ExpectedEmissions(SubSeq(ds, 1, Len(ds) - 1))
         IN  IF d.name \in DOMAIN RoutedTable
               THEN Append(before, [facade |-> d.to, name |-> RoutedTable[d.name], payload |-> d.message.payload])
               ELSE before

Emissions == [i \in 1..Len(emitted) |-> [facade |-> emitted[i].facade, name |-> emitted[i].name, payload |-> emitted[i].payload]]

C3_RouterForwardsInOrder ==
    /\ Emissions = ExpectedEmissions(delivered)
    /\ \A i \in 1..Len(emitted) : emitted[i].heard => <<emitted[i].facade, emitted[i].name>> \in listeners

\* three inbound events, one of them not routed, have given two emissions
\* of different names, the first with no listener and the second heard
C3_Witness ==
    /\ Len(delivered) = 3
    /\ Len(emitted) = 2
    /\ \E i \in 1..3 : delivered[i].name = "message_received"
    /\ emitted[1].name = "room_updated"
    /\ emitted[2].name = "new_room_created"
    /\ emitted[1].payload # emitted[2].payload
    /\ ~emitted[1].heard
    /\ emitted[2].heard

(***************************************************************************)
(* C7.  Of the validated calls in flight, each has made a client.send of   *)
(* its own, with its own arguments, and the future it returned is that     *)
(* send's: it settles once, with the reply or the error the transport      *)
(* settled that send with, whatever the order of settling and whatever     *)
(* push events arrive in between.  No two calls share a send or a future.  *)
(***************************************************************************)
Settled(p) == promises[p].state # "pending"

\* the future q has the outcome of the send's future p, or none yet
FollowsSend(q, p) ==
    \/ q = p
    \/ /\ promises[q].follows = p
       /\ Settled(q) => (Settled(p) /\ promises[q].state = promises[p].state /\ promises[q].value = promises[p].value)

OwnRequest(c) ==
    CASE c.method = "Rooms.findById" -> TheSend(c).payload = [roomId |-> c.args.roomId]
      [] c.method = "Rooms.findAll" -> TheSend(c).payload = [pagination |-> "{}"]
      [] c.method = "Clients.getCurrent" -> TheSend(c).argc = 1
      [] OTHER -> TRUE

C7_IndependentFutures ==
    /\ \A i \in 1..Len(calls) :
          LET c == calls[i]
          IN  AllPresent(c) =>
                /\ SentOne(c)
                /\ TheSend(c).to = c.facade
                /\ OwnRequest(c)
                /\ c.promise \in 1..Len(promises)
                /\ FollowsSend(c.promise, TheSend(c).promise)
                /\ \A j \in 1..Len(calls) : j # i =>
                      /\ calls[j].promise # c.promise
                      /\ SentOne(calls[j]) => TheSend(calls[j]).promise # TheSend(c).promise
    /\ \A p \in 1..Len(promises) : promises[p].settles = (IF Settled(p) THEN 1 ELSE 0)

\* findAll() twice with the same options, a push event delivered, and the
\* second call's future rejected by the transport while the first is pending
C7_Witness ==
    /\ Len(calls) >= 2
    /\ calls[1].method = "Rooms.findAll"
    /\ calls[2].method = "Rooms.findAll"
    /\ calls[1].args = calls[2].args
    /\ Len(delivered) >= 1
    /\ promises[calls[1].promise].state = "pending"
    /\ promises[calls[2].promise].state = "rejected"
    /\ promises[calls[2].promise].value = "neterr"

(***************************************************************************)
(* C9.  isConnected is written only by the handlers of the transport's     *)
(* CONNECTED event (to true) and DISCONNECTED event (to false), each of    *)
(* which emits the matching SocketKit event in the same step: connect(),   *)
(* disconnect(), getClient(), the ERROR and CONNECTING_ERROR handlers and   *)
(* the facade methods leave it as it is.                                   *)
(***************************************************************************)
C9_OnlyLifecycleHandlersWriteFlag ==
    [][isConnected' # isConnected =>
          /\ Len(skEmitted') = Len(skEmitted) + 1
          /\ skEmitted'[Len(skEmitted')].name = (IF isConnected' THEN "connected" ELSE "disconnected")
          /\ UNCHANGED <<client, Rooms, Clients, sends, promises, calls>>]_vars

\* disconnect() has been called on a connected transport, which has not
\* reported DISCONNECTED yet: the flag is still true
C9_Witness ==
    /\ client = 1
    /\ Len(tstate) = 1
    /\ tstate[client] = "disconnecting"
    /\ isConnected
    /\ Len(calls) > 0

(***************************************************************************)
(* C10.  isConnected is true exactly when the transport SocketKit.client   *)
(* holds is connected (it is connected from its CONNECTED event until its  *)
(* DISCONNECTED event).                                                    *)
(* Refuted by connect(); connect(); and then CONNECTED from the first      *)
(* transport: its handler is still bound and sets the flag while the       *)
(* transport in SocketKit.client is still connecting.                      *)
(***************************************************************************)
C10_FlagIsCurrentTransports ==
    client # 0 => (isConnected <=> tstate[client] \in {"connected", "disconnecting"})

(***************************************************************************)
(* C11.  At most one transport created by the SocketKit instance is        *)
(* connecting or connected at any time: connect() creates a transport (and *)
(* new facades) only when no transport of an earlier connect() is still    *)
(* connecting or connected, and a connect() made while isConnected is true *)
(* creates nothing and leaves client, Rooms and Clients as they are.       *)
(* Refuted by connect(); connect(): the guard of connect() reads only      *)
(* isConnected, which is false until CONNECTED arrives, so the second call *)
(* creates a second transport while the first is still connecting.         *)
(***************************************************************************)
Live == {t \in Transports : tstate[t] \in {"connecting", "connected"}}

C11_AtMostOneLiveTransport ==
    [][/\ Cardinality(Live') <= 1
       /\ Len(tstate') > Len(tstate) => Live = {}
       /\ isConnected => (Len(tstate') = Len(tstate) /\ UNCHANGED <<client, Rooms, Clients>>)]_vars

====
